---------------------------- MODULE Spec2Model ----------------------------
(***************************************************************************)
(* A model of Liaison, the fetch wrapper of packages/liaison:              *)
(*   - the extension chain and the `config` getter (config resolution),    *)
(*   - the interceptor registry of InterceptionHandler,                    *)
(*   - the request executor #fetch with its two entry points go / safeGo.  *)
(* Values (requests, responses, errors, thrown junk) are records with a    *)
(* field k naming their kind, so that any two of them can be compared.     *)
(***************************************************************************)
EXTENDS Integers, Sequences, FiniteSets, TLC

VARIABLES
    live,          \* the instances constructed so far
    extends,       \* extends[i]: the instance i extends, None for a root
    partial,       \* partial[i]: the config explicitly passed to i's constructor
    resolved,      \* the last evaluation of the `config` getter (observer)
    interceptors,  \* interceptors[i][event]: the ordered callback list of i
    listeners,     \* pending one-shot "abort" listeners, in subscription order
    aborted,       \* the AbortSignals that have fired
    regs,          \* every addInterceptor call made so far (observer)
    calls          \* calls[c]: the state of call c of go / safeGo

vars == <<live, extends, partial, resolved, interceptors, listeners, aborted, regs, calls>>

(***************************************************************************)
(* Bounds of the model.                                                    *)
(***************************************************************************)
MaxInst == 3
MaxAdds == 2

None == 0
Inst == 1..MaxInst

(***************************************************************************)
(* Config values.  A config maps every key to a config value; Absent       *)
(* stands for a key the object does not have.  `by` names the instance     *)
(* whose constructor supplied the value (0: supplied by nobody).           *)
(***************************************************************************)
SchemaKeys == <<"params", "body", "response">>
SchemaKeySet == {SchemaKeys[n] : n \in 1..Len(SchemaKeys)}
NativeKeys == {"url", "method"}
Keys == NativeKeys \cup SchemaKeySet \cup {"handleResponse"}

Absent == [t |-> "absent", by |-> 0, v |-> ""]
Val(i, s) == [t |-> "val", by |-> i, v |-> s]
Factory(i) == [t |-> "factory", by |-> i, v |-> ""]
SchemaOf(f) == [t |-> "schema", by |-> f.by, v |-> ""]
zUnknown == [t |-> "schema", by |-> 0, v |-> ""]
EmptyConfig == [k \in Keys |-> Absent]

\* { ...under, ...over }
Spread(under, over) == [k \in Keys |-> IF over[k] # Absent THEN over[k] ELSE under[k]]

\* the while loop of the `config` getter
RECURSIVE MergeChain(_, _)
MergeChain(opts, ext) ==
    IF ext = None THEN opts
    ELSE MergeChain(Spread(partial[ext], opts), extends[ext])

\* opts[key] ??= z.unknown(); if (typeof opts[key] === "function") opts[key] = opts[key](z)
MaterializeLeafFactoryOnly(v) == IF v = Absent THEN zUnknown ELSE v
Materialize(v) ==
    IF v = Absent THEN zUnknown
    ELSE IF v.t = "factory" THEN SchemaOf(v)
    ELSE v

\* the keys whose factory the getter invokes, in the order of the for loop
InvokedFactories(merged) ==
    SelectSeq(SchemaKeys, LAMBDA k : merged[k].t = "factory")

\* the value the `config` getter of instance i returns
MergedOf(i) == MergeChain(partial[i], extends[i])
configRootFirst(i) ==
    LET RECURSIVE Up(_, _)
        Up(opts, ext) == IF ext = None THEN opts
                         ELSE Up(Spread(opts, partial[ext]), extends[ext])
        merged == Up(partial[i], extends[i])
    IN [k \in Keys |-> IF k \in SchemaKeySet THEN Materialize(merged[k]) ELSE merged[k]]
config(i) ==
    LET merged == MergedOf(i)
    IN [k \in Keys |-> IF k \in SchemaKeySet THEN Materialize(merged[k]) ELSE merged[k]]

\* `opts` is this.partial itself when the instance extends nothing, so the
\* materialization loop of the getter writes into the root's own config
PartialAfterConfig(i) ==
    IF extends[i] = None THEN [partial EXCEPT ![i] = config(i)] ELSE partial

\* the chain getter: the instances from the earliest extend to i itself
RECURSIVE ChainUp(_)
ChainUp(i) == IF i = None THEN <<>> ELSE <<i>> \o ChainUp(extends[i])
Reverse(s) == [n \in 1..Len(s) |-> s[Len(s) + 1 - n]]
chainLeafFirst(i) == ChainUp(i)
chain(i) == Reverse(ChainUp(i))

(***************************************************************************)
(* Values threaded through a call.                                         *)
(***************************************************************************)
Events == {"request", "response", "error"}
\* callbacks are named by number
Callbacks == 1..MaxAdds
Signals == {"s1"}
NoSignal == "none"

NoVal == [k |-> "undefined"]

\* new Request(url, {method, body}) with its query string; marks lists the
\* interceptors that have replaced the value, in order
Req(url, method, query, body) ==
    [k |-> "Request", url |-> url, method |-> method, query |-> query,
     body |-> body, marks |-> <<>>]

\* an Error instance; `of` names what raised it
Err(of, msg) ==
    [k |-> "Error", of |-> of, status |-> 0, statusText |-> "", msg |-> msg,
     marks |-> <<>>]

\* values that are not Error instances: a string, and a BigInt
JunkString == [k |-> "String", msg |-> "boom"]
JunkBigInt == [k |-> "BigInt", msg |-> "1n"]

IsError(v) == v.k = "Error"

\* JSON.stringify: throws on a BigInt, yields undefined for undefined, and the
\* quoted text for a string
CanStringify(v) == v.k # "BigInt"
Stringify(v) ==
    IF v.k = "String" THEN "\"" \o v.msg \o "\""
    ELSE IF v.k = "undefined" THEN ""
    ELSE "{}"

Returned(v) == [threw |-> FALSE, v |-> v]
Thrown(v) == [threw |-> TRUE, v |-> v]

\* coerceError: an Error passes through, anything else is wrapped in
\* new Error(JSON.stringify(error)); JSON.stringify may itself throw
coerceErrorAlwaysWraps(error) ==
    IF CanStringify(error) THEN Returned(Err("wrapped", Stringify(error)))
    ELSE Thrown(Err("stringify", "TypeError"))
coerceError(error) ==
    IF IsError(error) THEN Returned(error)
    ELSE IF CanStringify(error) THEN Returned(Err("wrapped", Stringify(error)))
    ELSE Thrown(Err("stringify", "TypeError"))

(***************************************************************************)
(* The interceptor registry (InterceptionHandler).                         *)
(***************************************************************************)
NoInterceptors == [e \in Events |-> <<>>]

\* Array.prototype.indexOf, 1-based; 0 when the callback is not in the list
IndexOf(list, cb) ==
    IF \E n \in 1..Len(list) : list[n] = cb
    THEN CHOOSE n \in 1..Len(list) : list[n] = cb /\ \A m \in 1..(n - 1) : list[m] # cb
    ELSE 0

RemoveAt(list, n) == [m \in 1..(Len(list) - 1) |-> IF m < n THEN list[m] ELSE list[m + 1]]

\* list.splice(index, 1) with index = list.indexOf(cb): index -1 counts from
\* the end, so a missing callback removes the last element
SpliceNothing(list, cb) == list
SpliceLast(list, cb) == IF list = <<>> THEN list ELSE RemoveAt(list, Len(list))
SpliceIndexOf(list, cb) ==
    IF list = <<>> THEN list
    ELSE IF IndexOf(list, cb) = 0 THEN RemoveAt(list, Len(list))
    ELSE RemoveAt(list, IndexOf(list, cb))

\* the listener subscribed by addInterceptor, run when its signal aborts
RunListener(ints, l) ==
    [ints EXCEPT ![l.inst][l.ev] = SpliceIndexOf(ints[l.inst][l.ev], l.cb)]

RECURSIVE FireAll(_, _, _)
FireAll(ints, ls, sig) ==
    IF ls = <<>> THEN ints
    ELSE FireAll(IF Head(ls).sig = sig THEN RunListener(ints, Head(ls)) ELSE ints,
                 Tail(ls), sig)

\* this.#getInterceptors(event): the lists of the chain, earliest extend first
RECURSIVE Flat(_, _, _)
Flat(ints, is, ev) ==
    IF is = <<>> THEN <<>> ELSE ints[Head(is)][ev] \o Flat(ints, Tail(is), ev)
getInterceptorsOwnOnly(i, ev) == interceptors[i][ev]
getInterceptorsLeafFirst(i, ev) == Flat(interceptors, ChainUp(i), ev)
getInterceptors(i, ev) == Flat(interceptors, chain(i), ev)

\* addInterceptor(event, callback, {signal})
addInterceptor(i, ev, cb, sig) ==
    /\ i \in live
    /\ Len(regs) < MaxAdds
    /\ interceptors' = [interceptors EXCEPT ![i][ev] = Append(@, cb)]
    /\ listeners' =
          IF sig # NoSignal /\ sig \notin aborted
          THEN Append(listeners, [sig |-> sig, inst |-> i, ev |-> ev, cb |-> cb,
                                  reg |-> Len(regs) + 1])
          ELSE listeners
    /\ regs' = Append(regs, [inst |-> i, ev |-> ev, cb |-> cb, sig |-> sig,
                              fired |-> FALSE])
    /\ UNCHANGED <<live, extends, partial, resolved, aborted, calls>>

\* controller.abort(): the signal fires once and runs its listeners in order
Abort(sig) ==
    /\ sig \notin aborted
    /\ aborted' = aborted \cup {sig}
    /\ interceptors' = FireAll(interceptors, listeners, sig)
    /\ listeners' = SelectSeq(listeners, LAMBDA l : l.sig # sig)
    /\ regs' = [n \in 1..Len(regs) |->
                  IF \E m \in 1..Len(listeners) :
                        listeners[m].sig = sig /\ listeners[m].reg = n
                  THEN [regs[n] EXCEPT !.fired = TRUE] ELSE regs[n]]
    /\ UNCHANGED <<live, extends, partial, resolved, calls>>

(***************************************************************************)
(* The request executor: #fetch, go and safeGo.                            *)
(***************************************************************************)
CallIds == {1}

Null == [k |-> "null"]
Pending == [s |-> "pending", v |-> NoVal]
Resolved(v) == [s |-> "resolved", v |-> v]
Rejected(v) == [s |-> "rejected", v |-> v]
Tuple(value, error) == [k |-> "Tuple", value |-> value, error |-> error]

\* what a caller may pass to go / safeGo
DefaultUrl == "somehow a missing URL found its way"
InvalidUrl == "http://["
Overrides == {"none", "function", "throws", "object"}
ParamInputs == {"undefined", "id=42", "id=42&tag=[a,b]&none=[]", "id=42n"}
BodyInputs == {"undefined", "data"}

\* Object.entries(params) of a validated params value: keys with a string or
\* an array of strings
StringValue(v) == [k |-> "string", v |-> v]
ArrayValue(v) == [k |-> "array", v |-> v]
Entries(params) ==
    IF params = "id=42" THEN << <<"id", StringValue("42")>> >>
    ELSE IF params = "id=42&tag=[a,b]&none=[]"
    THEN << <<"id", StringValue("42")>>, <<"tag", ArrayValue(<<"a", "b">>)>>,
            <<"none", ArrayValue(<<>>)>> >>
    ELSE <<>>
\* [value].flat()
FlatValue(value) == IF value.k = "string" THEN <<value.v>> ELSE value.v
\* for (const v of [value].flat()) url.searchParams.append(key, v)
OccurrencesFirstOnly(key, values) ==
    IF values = <<>> THEN <<>> ELSE << <<key, Head(values)>> >>
RECURSIVE Occurrences(_, _)
Occurrences(key, values) ==
    IF values = <<>> THEN <<>>
    ELSE << <<key, Head(values)>> >> \o Occurrences(key, Tail(values))
\* for (const [key, value] of Object.entries(params)) ...
RECURSIVE AppendAll(_)
AppendAll(entries) ==
    IF entries = <<>> THEN <<>>
    ELSE Occurrences(Head(entries)[1], FlatValue(Head(entries)[2]))
             \o AppendAll(Tail(entries))
setUrlParams(params) == AppendAll(Entries(params))

\* baseParamSchema: undefined or Record<string, string | string[]>
Serializable(params) == params \in {"undefined", "id=42", "id=42&tag=[a,b]&none=[]"}

\* new Request(input, init) throws a TypeError on an unparsable URL and on a
\* body given to a GET or HEAD request
RequestThrows(url, method, body) ==
    \/ url = InvalidUrl
    \/ body # "undefined" /\ method \in {"GET", "HEAD"}

\* Response.ok
Ok(status) == status >= 200 /\ status <= 299

JsonType == "application/json; charset=utf-8"
TextType == "text/plain"
NoType == ""
\* type.includes("application/json")
IsJsonTypeExact(type) == type = "application/json"
IsJsonType(type) == type \in {"application/json", JsonType}

Resp(status, statusText, type, body, readable) ==
    [k |-> "Response", status |-> status, statusText |-> statusText,
     type |-> type, body |-> body, readable |-> readable, marks |-> <<>>]

ValidJson == "{\"ok\":true}"
\* response.json() and response.text(): both fail when the body cannot be
\* read, json() also when the text is not JSON
ReadJson(res) ==
    IF ~res.readable THEN Thrown(Err("bodyRead", "TypeError"))
    ELSE IF res.body = ValidJson THEN Returned([k |-> "Json", msg |-> res.body])
    ELSE Thrown(Err("json", "SyntaxError"))
ReadText(res) ==
    IF ~res.readable THEN Thrown(Err("bodyRead", "TypeError"))
    ELSE Returned([k |-> "Text", msg |-> res.body])

\* unwrapRespone
unwrapResponeTextOnly(response) == ReadText(response)
unwrapRespone(response) ==
    IF IsJsonType(response.type) THEN ReadJson(response) ELSE ReadText(response)

\* handleServerError
StatusError(res) ==
    [k |-> "Error", of |-> "status", status |-> res.status,
     statusText |-> res.statusText, msg |-> res.body, marks |-> <<>>]
handleServerErrorNoBodyRead(res) ==
    IF Ok(res.status) THEN Returned(res) ELSE Thrown(StatusError(res))
handleServerErrorOffByOne(res) ==
    IF res.status >= 200 /\ res.status < 299 THEN Returned(res)
    ELSE IF ReadText(res).threw THEN Thrown(ReadText(res).v)
    ELSE Thrown(StatusError(res))
handleServerErrorBelow400(res) ==
    IF res.status >= 200 /\ res.status < 400 THEN Returned(res)
    ELSE IF ReadText(res).threw THEN Thrown(ReadText(res).v)
    ELSE Thrown(StatusError(res))
handleServerError(res) ==
    IF Ok(res.status) THEN Returned(res)
    ELSE IF ReadText(res).threw THEN Thrown(ReadText(res).v)
    ELSE Thrown(StatusError(res))

\* the argument of go and safeGo: input for the schemas, native options and
\* an override
NoFragment == [url |-> "", method |-> ""]
PlainCall ==
    [url |-> "", method |-> "", params |-> "undefined", body |-> "undefined",
     override |-> "none", fragment |-> NoFragment]

IdleCall ==
    [pc |-> "idle", inst |-> None, mode |-> "", stack |-> None,
     instanceConfig |-> EmptyConfig, url |-> "", method |-> "",
     paramsInput |-> "undefined", bodyInput |-> "undefined",
     params |-> Pending, body |-> Pending,
     currentRequest |-> NoVal, finalRequest |-> NoVal, response |-> NoVal,
     checked |-> NoVal, intercepted |-> NoVal, unwrapped |-> NoVal,
     pipe |-> <<>>, idx |-> 0, acc |-> NoVal,
     caught |-> NoVal, stage |-> "", errRequest |-> NoVal, coerced |-> NoVal,
     outcome |-> Pending, result |-> Pending,
     fetches |-> 0, log |-> <<>>, running |-> {}, cc |-> PlainCall,
     builtRequest |-> NoVal,
     built |-> [e \in Events |-> FALSE], snapshot |-> NoInterceptors,
     lists |-> [e \in Events |-> [i \in Inst |-> <<>>]],
     atStart |-> NoInterceptors, firedAtStart |-> {}]

\* go: the promise of #fetch itself
go(outcome) == outcome

\* safeGo: try { return [await this.#fetch(config), null] }
\*         catch (error) { return [null, coerceError(error)] }
safeGoUncoerced(outcome) ==
    IF outcome.s = "resolved" THEN Resolved(Tuple(outcome.v, Null))
    ELSE Resolved(Tuple(Null, outcome.v))
safeGoSwapped(outcome) ==
    IF outcome.s = "resolved" THEN Resolved(Tuple(Null, outcome.v))
    ELSE IF coerceError(outcome.v).threw THEN Rejected(coerceError(outcome.v).v)
    ELSE Resolved(Tuple(Null, coerceError(outcome.v).v))
safeGo(outcome) ==
    IF outcome.s = "resolved" THEN Resolved(Tuple(outcome.v, Null))
    ELSE IF coerceError(outcome.v).threw THEN Rejected(coerceError(outcome.v).v)
    ELSE Resolved(Tuple(Null, coerceError(outcome.v).v))

\* #fetch settles and the entry point hands its result to the caller
Finish(call, outcome) ==
    [call EXCEPT !.pc = "done", !.outcome = outcome,
                 !.result = IF call.mode = "go" THEN go(outcome) ELSE safeGo(outcome)]

\* the spread { ...instanceConfigRest, ...callConfig, ...callConfigOverrides }
FirstDefined(override, call, instance) ==
    IF override # "" THEN override ELSE IF call # "" THEN call ELSE instance
MergeNativeCallLast(cc, instanceConfig, key) ==
    FirstDefined(cc[key], IF cc.override = "function" THEN cc.fragment[key] ELSE "",
                 instanceConfig[key].v)
MergeNative(cc, instanceConfig, key) ==
    FirstDefined(IF cc.override = "function" THEN cc.fragment[key] ELSE "",
                 cc[key], instanceConfig[key].v)

MethodOf(method) == IF method = "" THEN "GET" ELSE method
UrlOf(url) == IF url = "" THEN DefaultUrl ELSE url

SetCall(c, call) == calls' = [calls EXCEPT ![c] = call]

\* observer: the registrations whose signal had fired
FiredRegs == {n \in 1..Len(regs) : regs[n].fired}

\* #fetch up to its first await: stack, config, override, split, the first
\* Request, and the start of both validations
Begin(c, i, mode, cc) ==
    /\ calls[c].pc = "idle"
    /\ i \in live
    /\ LET instanceConfig == config(i)
           url == UrlOf(MergeNative(cc, instanceConfig, "url"))
           method == MethodOf(MergeNative(cc, instanceConfig, "method"))
           started == [calls[c] EXCEPT
                         !.inst = i, !.mode = mode, !.stack = c, !.cc = cc,
                         !.instanceConfig = instanceConfig,
                         !.atStart = [e \in Events |-> getInterceptors(i, e)],
                         !.firedAtStart = FiredRegs]
       IN /\ partial' = PartialAfterConfig(i)
          /\ resolved' = [inst |-> i, config |-> instanceConfig,
                          invoked |-> InvokedFactories(MergedOf(i))]
          /\ IF cc.override = "object"
             THEN SetCall(c, Finish(started, Rejected(Err("override", "TypeError"))))
             ELSE IF cc.override = "throws"
             THEN SetCall(c, Finish(started, Rejected(Err("override", "thrown"))))
             ELSE IF RequestThrows(url, method, "undefined")
             THEN SetCall(c, Finish([started EXCEPT !.url = url, !.method = method],
                                    Rejected(Err("request", "TypeError"))))
             ELSE SetCall(c, [started EXCEPT
                                !.pc = "validating", !.url = url, !.method = method,
                                !.paramsInput = cc.params, !.bodyInput = cc.body,
                                !.currentRequest = Req(url, method, <<>>, "undefined")])
    /\ UNCHANGED <<live, extends, interceptors, listeners, aborted, regs>>

Engine == <<live, extends, partial, resolved, interceptors, listeners, aborted, regs>>

Fail(call, pc, error) == [call EXCEPT !.pc = pc, !.caught = error]

\* paramSchema.pipe(baseParamSchema).parseAsync(paramsInput) settles
ValidateParamsRace(c, accept) ==
    LET call == calls[c] IN
    /\ call.pc = "validating"
    /\ call.params = Pending
    /\ accept \/ call.instanceConfig["params"] # zUnknown
    /\ IF ~accept
       THEN SetCall(c, Fail([call EXCEPT !.params = Rejected(Err("params", "ZodError"))],
                            "catchRequest", Err("params", "ZodError")))
       ELSE IF ~Serializable(call.paramsInput)
       THEN SetCall(c, Fail([call EXCEPT
                               !.params = Rejected(Err("paramSerialization", "ZodError"))],
                            "catchRequest", Err("paramSerialization", "ZodError")))
       ELSE SetCall(c, [call EXCEPT
                          !.params = Resolved([k |-> "Params", msg |-> call.paramsInput]),
                          !.pc = "validated"])
    /\ UNCHANGED Engine
ValidateParams(c, accept) ==
    LET call == calls[c] IN
    /\ call.pc = "validating"
    /\ call.params = Pending
    /\ accept \/ call.instanceConfig["params"] # zUnknown
    /\ IF ~accept
       THEN SetCall(c, Fail([call EXCEPT !.params = Rejected(Err("params", "ZodError"))],
                            "catchRequest", Err("params", "ZodError")))
       ELSE IF ~Serializable(call.paramsInput)
       THEN SetCall(c, Fail([call EXCEPT
                               !.params = Rejected(Err("paramSerialization", "ZodError"))],
                            "catchRequest", Err("paramSerialization", "ZodError")))
       ELSE SetCall(c, [call EXCEPT
                          !.params = Resolved([k |-> "Params", msg |-> call.paramsInput]),
                          !.pc = IF call.body.s = "resolved" THEN "validated"
                                 ELSE "validating"])
    /\ UNCHANGED Engine

\* bodySchema.parseAsync(bodyInput) settles
ValidateBodyAllSettled(c, accept) ==
    LET call == calls[c] IN
    /\ call.pc = "validating"
    /\ call.body = Pending
    /\ accept \/ call.instanceConfig["body"] # zUnknown
    /\ SetCall(c, [call EXCEPT
                     !.body = IF accept THEN Resolved([k |-> "Body", msg |-> call.bodyInput])
                              ELSE Rejected(Err("body", "ZodError")),
                     !.pc = IF call.params.s = "resolved" THEN "validated"
                            ELSE "validating"])
    /\ UNCHANGED Engine
ValidateBody(c, accept) ==
    LET call == calls[c] IN
    /\ call.pc = "validating"
    /\ call.body = Pending
    /\ accept \/ call.instanceConfig["body"] # zUnknown
    /\ IF ~accept
       THEN SetCall(c, Fail([call EXCEPT !.body = Rejected(Err("body", "ZodError"))],
                            "catchRequest", Err("body", "ZodError")))
       ELSE SetCall(c, [call EXCEPT
                          !.body = Resolved([k |-> "Body", msg |-> call.bodyInput]),
                          !.pc = IF call.params.s = "resolved" THEN "validated"
                                 ELSE "validating"])
    /\ UNCHANGED Engine

\* .then(([params, body]) => currentRequest = new Request(setUrlParams(...), ...))
BuildUntracked(c) ==
    LET call == calls[c] IN
    /\ call.pc = "validated"
    /\ IF RequestThrows(call.url, call.method, call.body.v.msg)
       THEN SetCall(c, Fail(call, "catchRequest", Err("request", "TypeError")))
       ELSE LET req == Req(call.url, call.method, setUrlParams(call.params.v.msg),
                           call.body.v.msg)
            IN SetCall(c, [call EXCEPT !.pc = "built", !.acc = req,
                                       !.builtRequest = req])
    /\ UNCHANGED Engine
Build(c) ==
    LET call == calls[c] IN
    /\ call.pc = "validated"
    /\ IF RequestThrows(call.url, call.method, call.body.v.msg)
       THEN SetCall(c, Fail(call, "catchRequest", Err("request", "TypeError")))
       ELSE LET req == Req(call.url, call.method, setUrlParams(call.params.v.msg),
                           call.body.v.msg)
            IN SetCall(c, [call EXCEPT !.pc = "built", !.currentRequest = req,
                                       !.acc = req, !.builtRequest = req])
    /\ UNCHANGED Engine

\* what one invocation of an interceptor callback may do
Outcomes(ev) ==
    {"return", "throwError", "throwString", "throwBigInt"}
        \cup (IF ev = "error" THEN {"returnString", "returnBigInt"} ELSE {})

Mark(v, cb) ==
    IF "marks" \in DOMAIN v THEN [v EXCEPT !.marks = Append(@, cb)] ELSE v

\* the value a callback returns or throws
Behave(outcome, cb, input) ==
    CASE outcome = "return" -> Returned(Mark(input, cb))
      [] outcome = "returnString" -> Returned(JunkString)
      [] outcome = "returnBigInt" -> Returned(JunkBigInt)
      [] outcome = "throwError" -> Thrown(Mark(Err("interceptor", "thrown"), cb))
      [] outcome = "throwString" -> Thrown(JunkString)
      [] outcome = "throwBigInt" -> Thrown(JunkBigInt)

EventOf(pc) ==
    CASE pc = "requestPipe" -> "request"
      [] pc = "responsePipe" -> "response"
      [] pc = "errorPipe" -> "error"

\* the context arguments each pipe is called with
Context(call, ev) ==
    CASE ev = "request" -> [request |-> NoVal, stage |-> "", stack |-> call.stack]
      [] ev = "response" -> [request |-> call.finalRequest, stage |-> "", stack |-> None]
      [] ev = "error" -> [request |-> call.errRequest, stage |-> call.stage,
                          stack |-> call.stack]

\* create*Pipe(cbs): the pipe closes over the array it was created from
PipeLive(call) == getInterceptors(call.inst, EventOf(call.pc))
Pipe(call) == call.pipe

\* Promise.resolve(acc): the value the fold starts from
SeedMarked(acc) == Mark(acc, 0)
Seed(acc) == acc

\* the getter this.#requestPipe / #responsePipe / #errorPipe, and the call of
\* the pipe it returns
StartPipe(call, pc, acc) ==
    LET ev == EventOf(pc) IN
    [call EXCEPT !.pc = pc, !.pipe = getInterceptors(call.inst, ev), !.idx = 1,
                 !.running = {},
                 !.acc = Seed(acc), !.built[ev] = TRUE,
                 !.snapshot[ev] = getInterceptors(call.inst, ev),
                 !.lists[ev] = [i \in Inst |-> interceptors[i][ev]]]

\* .then(async req => (currentRequest = await this.#requestPipe(req, stack)))
RequestPipe(c) ==
    /\ calls[c].pc = "built"
    /\ SetCall(c, StartPipe(calls[c], "requestPipe", calls[c].acc))
    /\ UNCHANGED Engine

\* cbs.reduce(async (a, e) => e(await a, ...ctx), ...): `await a` lets the
\* next callback be called only once the promise of the one before it has
\* settled
NotAwaited(call) == TRUE
PreviousSettled(call) == call.running = {}

\* the result of a callback that has been called and has not settled yet
Unsettled == [threw |-> FALSE, v |-> NoVal]

\* e(await a, ...ctx): the next callback of the pipe is called with the
\* accumulated value and the context arguments
Invoke(c) ==
    LET call == calls[c] IN
    /\ call.pc \in {"requestPipe", "responsePipe", "errorPipe"}
    /\ call.idx <= Len(Pipe(call))
    /\ PreviousSettled(call)
    /\ LET ev == EventOf(call.pc) IN
       SetCall(c, [call EXCEPT
                     !.running = @ \cup {call.idx}, !.idx = @ + 1,
                     !.log = Append(@, [ev |-> ev, cb |-> Pipe(call)[call.idx],
                                        input |-> call.acc, ctx |-> Context(call, ev),
                                        out |-> Unsettled])])
    /\ UNCHANGED Engine

\* the promise a callback returned settles: its value is the accumulator of
\* the next callback, its rejection is the rejection of the whole pipe
Intercept(c, outcome) ==
    LET call == calls[c] IN
    /\ call.pc \in {"requestPipe", "responsePipe", "errorPipe"}
    /\ call.running # {}
    /\ outcome \in Outcomes(EventOf(call.pc))
    /\ \E n \in call.running :
          LET ev == EventOf(call.pc)
              at == Len(call.log) - (call.idx - 1 - n)
              out == Behave(outcome, call.log[at].cb, call.log[at].input)
              logged == [call EXCEPT !.log[at].out = out] IN
          IF ~out.threw
          THEN SetCall(c, [logged EXCEPT !.acc = out.v, !.running = @ \ {n}])
          ELSE LET failed == [logged EXCEPT !.running = {}] IN
               IF ev = "request" THEN SetCall(c, Fail(failed, "catchRequest", out.v))
               ELSE IF ev = "response" THEN SetCall(c, Fail(failed, "catchResponse", out.v))
               ELSE SetCall(c, Finish(failed, Rejected(out.v)))
    /\ UNCHANGED Engine

\* the request pipe has resolved: currentRequest and finalRequest are its
\* output and fetch(finalRequest) is called
RequestPiped(c) ==
    LET call == calls[c] IN
    /\ call.pc = "requestPipe"
    /\ call.idx > Len(Pipe(call)) /\ call.running = {}
    /\ SetCall(c, [call EXCEPT !.pc = "sent", !.currentRequest = call.acc,
                               !.finalRequest = call.acc, !.fetches = @ + 1])
    /\ UNCHANGED Engine

\* the transport settles: a Response, or a network failure
Responses ==
    {Resp(200, "OK", JsonType, ValidJson, TRUE),
     Resp(200, "OK", JsonType, "oops", TRUE),
     Resp(200, "OK", NoType, ValidJson, TRUE),
     Resp(299, "Custom", TextType, "oops", FALSE),
     Resp(300, "Multiple Choices", TextType, "oops", TRUE),
     Resp(404, "Not Found", JsonType, ValidJson, TRUE),
     Resp(500, "Internal Server Error", TextType, "oops", FALSE)}

Transport(c, failed, res) ==
    LET call == calls[c] IN
    /\ call.pc = "sent"
    /\ IF failed
       THEN SetCall(c, Fail(call, "catchResponse", Err("transport", "TypeError")))
       ELSE SetCall(c, [call EXCEPT !.pc = "received", !.response = res])
    /\ UNCHANGED Engine

\* .then(handleServerError)
StatusCheck(c) ==
    LET call == calls[c]
        checked == handleServerError(call.response) IN
    /\ call.pc = "received"
    /\ IF checked.threw
       THEN SetCall(c, Fail(call, "catchResponse", checked.v))
       ELSE SetCall(c, [call EXCEPT !.pc = "checked", !.acc = checked.v,
                                  !.checked = checked.v])
    /\ UNCHANGED Engine

\* .then(res => this.#responsePipe(res, finalRequest))
ResponsePipe(c) ==
    /\ calls[c].pc = "checked"
    /\ SetCall(c, StartPipe(calls[c], "responsePipe", calls[c].acc))
    /\ UNCHANGED Engine

ResponsePiped(c) ==
    LET call == calls[c] IN
    /\ call.pc = "responsePipe"
    /\ call.idx > Len(Pipe(call)) /\ call.running = {}
    /\ SetCall(c, [call EXCEPT !.pc = "piped", !.intercepted = call.acc])
    /\ UNCHANGED Engine

\* .then(handleResponse ?? unwrapRespone); a custom handleResponse returns
\* what it likes or throws
Unwrap(c, customThrows) ==
    LET call == calls[c]
        custom == call.instanceConfig["handleResponse"] # Absent
        out == IF ~custom THEN unwrapRespone(call.acc)
               ELSE IF customThrows THEN Thrown(Err("handleResponse", "thrown"))
               ELSE Returned([k |-> "Custom", msg |-> call.acc.body]) IN
    /\ call.pc = "piped"
    /\ custom \/ ~customThrows
    /\ IF out.threw
       THEN SetCall(c, Fail(call, "catchResponse", out.v))
       ELSE SetCall(c, [call EXCEPT !.pc = "unwrapped", !.acc = out.v,
                                  !.unwrapped = out.v])
    /\ UNCHANGED Engine

\* the value responseSchema.parseAsync(res) resolves with
ParseResponse(v) == [k |-> "Parsed", msg |-> v.msg]

\* .then(res => responseSchema.parseAsync(res, ...))
Validate(c, accept) ==
    LET call == calls[c] IN
    /\ call.pc = "unwrapped"
    /\ accept \/ call.instanceConfig["response"] # zUnknown
    /\ IF accept
       THEN SetCall(c, Finish(call, Resolved(ParseResponse(call.acc))))
       ELSE SetCall(c, Fail(call, "catchResponse", Err("response", "ZodError")))
    /\ UNCHANGED Engine

\* .catch(async err => { throw await this.#errorPipe(coerceError(err), ...) })
Catch(call, stage, request) ==
    IF coerceError(call.caught).threw
    THEN Finish(call, Rejected(coerceError(call.caught).v))
    ELSE StartPipe([call EXCEPT !.stage = stage, !.errRequest = request,
                                !.coerced = coerceError(call.caught).v],
                   "errorPipe", coerceError(call.caught).v)

CatchRequestAndSend(c) ==
    /\ calls[c].pc = "catchRequest"
    /\ SetCall(c, [calls[c] EXCEPT !.pc = "sent",
                                   !.finalRequest = calls[c].currentRequest,
                                   !.fetches = @ + 1])
    /\ UNCHANGED Engine
CatchRequestShared(c) ==
    LET others == {d \in DOMAIN calls : d # c /\ calls[d].currentRequest # NoVal}
        latest == IF others = {} THEN calls[c].currentRequest
                  ELSE calls[CHOOSE d \in others : TRUE].currentRequest IN
    /\ calls[c].pc = "catchRequest"
    /\ SetCall(c, Catch(calls[c], "request", latest))
    /\ UNCHANGED Engine
CatchRequest(c) ==
    /\ calls[c].pc = "catchRequest"
    /\ SetCall(c, Catch(calls[c], "request", calls[c].currentRequest))
    /\ UNCHANGED Engine

CatchResponse(c) ==
    /\ calls[c].pc = "catchResponse"
    /\ SetCall(c, Catch(calls[c], "response", calls[c].finalRequest))
    /\ UNCHANGED Engine

\* the error pipe has resolved: throw its value
ErrorPiped(c) ==
    LET call == calls[c] IN
    /\ call.pc = "errorPipe"
    /\ call.idx > Len(Pipe(call)) /\ call.running = {}
    /\ SetCall(c, Finish(call, Rejected(call.acc)))
    /\ UNCHANGED Engine

(***************************************************************************)
(* Construction and config resolution.                                     *)
(***************************************************************************)
\* the configs a constructor is given: any subset of the keys, each value
\* tagged with the instance that sets it
OwnConfig(i, keys) ==
    [k \in Keys |-> IF k \notin keys THEN Absent
                    ELSE IF k \in SchemaKeySet THEN Factory(i)
                    ELSE Val(i, "v")]
ConfigKeys == {"url", "params", "response"}

\* new Liaison(config) / new Liaison(extend, config)
Construct(i, parent, keys) ==
    /\ i \notin live
    /\ \A j \in 1..(i - 1) : j \in live
    /\ parent = None \/ parent \in live
    /\ live' = live \cup {i}
    /\ extends' = [extends EXCEPT ![i] = parent]
    /\ partial' = [partial EXCEPT ![i] = OwnConfig(i, keys)]
    /\ UNCHANGED <<resolved, interceptors, listeners, aborted, regs, calls>>

\* instance.config
Resolve(i) ==
    /\ i \in live
    /\ resolved' = [inst |-> i, config |-> config(i),
                    invoked |-> InvokedFactories(MergedOf(i))]
    /\ partial' = PartialAfterConfig(i)
    /\ UNCHANGED <<live, extends, interceptors, listeners, aborted, regs, calls>>

NotResolved == [inst |-> None, config |-> EmptyConfig, invoked |-> <<>>]

InitConfig ==
    /\ live = {}
    /\ extends = [i \in Inst |-> None]
    /\ partial = [i \in Inst |-> EmptyConfig]
    /\ resolved = NotResolved
    /\ interceptors = [i \in Inst |-> NoInterceptors]
    /\ listeners = <<>>
    /\ aborted = {}
    /\ regs = <<>>
    /\ calls = [c \in CallIds |-> IdleCall]

NextConfig ==
    \/ \E i \in Inst, keys \in SUBSET ConfigKeys :
          \E parent \in {None, i - 1} : Construct(i, parent, keys)
    \/ \E i \in Inst : Resolve(i)

SpecConfig == InitConfig /\ [][NextConfig]_vars

(***************************************************************************)
(* Calls on a root instance and on an instance extending it.               *)
(***************************************************************************)
Root == 1
Leaf == 2

RootConfig == [EmptyConfig EXCEPT !["url"] = Val(Root, "/echo")]
LeafConfigs ==
    {[EmptyConfig EXCEPT !["params"] = Factory(Leaf), !["body"] = Factory(Leaf),
                         !["response"] = Factory(Leaf)],
     [EmptyConfig EXCEPT !["method"] = Val(Leaf, "POST"),
                         !["handleResponse"] = Val(Leaf, "custom")]}

CallConfigs ==
    {[PlainCall EXCEPT !.params = p] : p \in ParamInputs}
    \cup {[PlainCall EXCEPT !.body = "data"],
          [PlainCall EXCEPT !.body = "data", !.method = "POST"],
          [PlainCall EXCEPT !.override = "throws"],
          [PlainCall EXCEPT !.override = "object", !.fragment.url = "/override"],
          [PlainCall EXCEPT !.override = "function", !.fragment.url = InvalidUrl],
          [PlainCall EXCEPT !.url = "/call", !.method = "PUT", !.override = "function",
                            !.fragment.url = "/override"]}

Constructed(leafs) ==
    /\ live = {Root, Leaf}
    /\ extends = [i \in Inst |-> IF i = Leaf THEN Root ELSE None]
    /\ \E leaf \in leafs :
          partial = [i \in Inst |-> IF i = Root THEN RootConfig
                                    ELSE IF i = Leaf THEN leaf ELSE EmptyConfig]
    /\ resolved = NotResolved
    /\ interceptors = [i \in Inst |-> NoInterceptors]
    /\ listeners = <<>>
    /\ aborted = {}
    /\ regs = <<>>
    /\ calls = [c \in CallIds |-> IdleCall]

\* the steps of call c after it has begun, with the environment's choices
\* drawn from the given sets
Steps(c, accepts, outcomes, responses) ==
    \/ \E accept \in accepts : ValidateParams(c, accept)
    \/ \E accept \in accepts : ValidateBody(c, accept)
    \/ Build(c)
    \/ RequestPipe(c)
    \/ Invoke(c)
    \/ \E outcome \in outcomes : Intercept(c, outcome)
    \/ RequestPiped(c)
    \/ \E failed \in accepts, res \in responses : Transport(c, ~failed, res)
    \/ StatusCheck(c)
    \/ ResponsePipe(c)
    \/ ResponsePiped(c)
    \/ \E customThrows \in accepts : Unwrap(c, ~customThrows)
    \/ \E accept \in accepts : Validate(c, accept)
    \/ CatchRequest(c)
    \/ CatchResponse(c)
    \/ ErrorPiped(c)

Init == Constructed(LeafConfigs)

Idle == \A c \in CallIds : calls[c].pc = "idle"

\* the executor under every behaviour of schemas, transport and interceptors;
\* interceptors are registered before the call begins
Next ==
    \/ \E i \in {Root, Leaf}, ev \in Events :
          Idle /\ addInterceptor(i, ev, Len(regs) + 1, NoSignal)
    \/ \E c \in CallIds, i \in {Root, Leaf}, mode \in {"go", "safeGo"}, cc \in CallConfigs :
          Begin(c, i, mode, cc)
    \/ \E c \in CallIds : Steps(c, BOOLEAN, Outcomes("error"), Responses)

Spec == Init /\ [][Next]_vars

(***************************************************************************)
(* The registry under mutation: interceptors are added and cancelled at    *)
(* any moment of a call whose schemas accept and whose transport answers.  *)
(***************************************************************************)
RegistryResponses ==
    {Resp(200, "OK", JsonType, ValidJson, TRUE),
     Resp(404, "Not Found", JsonType, ValidJson, TRUE)}

NextRegistry ==
    \/ \E i \in {Root, Leaf}, ev \in Events, sig \in Signals \cup {NoSignal} :
          addInterceptor(i, ev, Len(regs) + 1, sig)
    \/ \E sig \in Signals : Abort(sig)
    \/ \E c \in CallIds, i \in {Root, Leaf} : Begin(c, i, "go", PlainCall)
    \/ \E c \in CallIds : Steps(c, {TRUE}, {"return", "throwError"}, RegistryResponses)

InitRegistry == Constructed({EmptyConfig})

SpecRegistry == InitRegistry /\ [][NextRegistry]_vars

(***************************************************************************)
(* The registry alone: callbacks registered more than once, on either      *)
(* instance, with or without one of two cancellation tokens.               *)
(***************************************************************************)
Tokens == {"s1", "s2"}

NextCancel ==
    \/ \E i \in {Root, Leaf}, ev \in Events, cb \in Callbacks, sig \in Tokens \cup {NoSignal} :
          addInterceptor(i, ev, cb, sig)
    \/ \E sig \in Tokens : Abort(sig)

SpecCancel == InitRegistry /\ [][NextCancel]_vars

(***************************************************************************)
(* Two calls in flight at once, on the same instance or on an instance and *)
(* the one it extends; interceptors are registered before either begins.   *)
(***************************************************************************)
PairIds == {1, 2}

\* the root defines the params schema by a factory, the leaf adds nothing
PairRootConfig == [RootConfig EXCEPT !["params"] = Factory(Root)]

\* each call names its own url
PairCall(c) == [PlainCall EXCEPT !.url = IF c = 1 THEN "/one" ELSE "/two"]

InitPair ==
    /\ live = {Root, Leaf}
    /\ extends = [i \in Inst |-> IF i = Leaf THEN Root ELSE None]
    /\ partial = [i \in Inst |-> IF i = Root THEN PairRootConfig ELSE EmptyConfig]
    /\ resolved = NotResolved
    /\ interceptors = [i \in Inst |-> NoInterceptors]
    /\ listeners = <<>>
    /\ aborted = {}
    /\ regs = <<>>
    /\ calls = [c \in PairIds |-> IdleCall]

NextPair ==
    \/ \E i \in {Root, Leaf}, ev \in Events :
          /\ \A c \in PairIds : calls[c].pc = "idle"
          /\ addInterceptor(i, ev, Len(regs) + 1, NoSignal)
    \/ \E i \in {Root, Leaf} : Begin(1, i, "go", PairCall(1))
    \/ Begin(2, Leaf, "go", PairCall(2))
    \/ \E c \in PairIds : Steps(c, {TRUE}, {"return", "throwError"}, RegistryResponses)

SpecPair == InitPair /\ [][NextPair]_vars

(***************************************************************************)
(* Properties.                                                             *)
(***************************************************************************)
Done(c) == calls[c].pc = "done"
\* the call reached the transport and got a Response
Answered(c) == calls[c].response # NoVal
\* the invocations of the interceptors of one event, in the order they ran
Invoked(call, ev) == SelectSeq(call.log, LAMBDA e : e.ev = ev)
CallbacksOf(entries) == [n \in 1..Len(entries) |-> entries[n].cb]

\* C1: safeGo never rejects: whatever schemas, transport and interceptors
\* do, the promise of safeGo resolves to [value, null] when #fetch resolved
\* and to [null, error] with a non-null error when it failed.
C1_SafeGoNeverRejects ==
    \A c \in CallIds :
        Done(c) /\ calls[c].mode = "safeGo" =>
            /\ calls[c].result.s = "resolved"
            /\ calls[c].result.v.k = "Tuple"
            /\ IF calls[c].outcome.s = "resolved"
               THEN calls[c].result.v = Tuple(calls[c].outcome.v, Null)
               ELSE calls[c].result.v.value = Null /\ calls[c].result.v.error # Null

Materialized(call) ==
    IF call.instanceConfig["handleResponse"] # Absent
    THEN [k |-> "Custom", msg |-> call.intercepted.body]
    ELSE IF call.intercepted.type \in {"application/json", JsonType}
    THEN [k |-> "Json", msg |-> call.intercepted.body]
    ELSE [k |-> "Text", msg |-> call.intercepted.body]

\* C3 as stated: for every transport response with status in 200..299, go
\* resolves with the response schema's parse of the unwrapped response and
\* the error pipeline is not invoked.
C3_SuccessStatusResolves ==
    \A c \in CallIds :
        Done(c) /\ calls[c].mode = "go" /\ Answered(c)
                /\ calls[c].response.status \in 200..299 =>
            /\ calls[c].result.s = "resolved"
            /\ calls[c].result.v = [k |-> "Parsed", msg |-> Materialized(calls[c]).msg]
            /\ ~calls[c].built["error"]

\* C3 amended: for every transport response with status in 200..299, go
\* resolves with the response schema's parse of the unwrapped response (as
\* left by the response pipeline), without the error pipeline being invoked,
\* when response interception, unwrapping and response validation all
\* succeed; when one of them fails, go rejects.
C3_SuccessStatusResolvesUnlessLaterStepFails ==
    \A c \in CallIds :
        Done(c) /\ calls[c].mode = "go" /\ Answered(c)
                /\ calls[c].response.status \in 200..299 =>
            IF calls[c].caught = NoVal
            THEN /\ calls[c].result.s = "resolved"
                 /\ calls[c].unwrapped = Materialized(calls[c])
                 /\ calls[c].result.v = [k |-> "Parsed", msg |-> calls[c].unwrapped.msg]
                 /\ ~calls[c].built["error"]
            ELSE calls[c].result.s = "rejected"

\* a 200 JSON response that went through a response interceptor and resolved
C3_Witness ==
    \E c \in CallIds :
        /\ Done(c) /\ calls[c].mode = "go" /\ Answered(c)
        /\ calls[c].response.status = 200
        /\ calls[c].intercepted # NoVal /\ calls[c].intercepted.marks # <<>>
        /\ calls[c].result = Resolved([k |-> "Parsed", msg |-> ValidJson])

\* C4: for every transport response whose status is outside 200..299, go
\* rejects and the error the call fails with (the one handed to the error
\* pipeline) is a status error carrying the exact status code and status
\* text of that response; a response inside 200..299 passes the status check
\* unmodified.
C4_StatusError ==
    \A c \in CallIds :
        Done(c) /\ calls[c].mode = "go" /\ Answered(c) =>
            IF calls[c].response.status \in 200..299
            THEN calls[c].checked = calls[c].response
            ELSE /\ calls[c].result.s = "rejected"
                 /\ calls[c].caught.k = "Error"
                 /\ calls[c].caught.of = "status"
                 /\ calls[c].caught.status = calls[c].response.status
                 /\ calls[c].caught.statusText = calls[c].response.statusText

\* C5: closest definition wins: for every key, the resolved config holds the
\* value given by the instance closest to the resolved instance among those
\* of its chain that define the key (for a schema key: the schema that value
\* produces), and an ancestor's value only when no closer instance has one.
Distance(i, j) == CHOOSE n \in 1..Len(ChainUp(i)) : ChainUp(i)[n] = j
Definers(i, k) ==
    {j \in live : (\E n \in 1..Len(ChainUp(i)) : ChainUp(i)[n] = j) /\ partial[j][k] # Absent}
Closest(i, k) ==
    CHOOSE j \in Definers(i, k) : \A h \in Definers(i, k) : Distance(i, j) <= Distance(i, h)
C5_ClosestDefinitionWins ==
    resolved.inst # None =>
        \A k \in Keys :
            IF Definers(resolved.inst, k) = {}
            THEN resolved.config[k] = IF k \in SchemaKeySet THEN zUnknown ELSE Absent
            ELSE LET set == partial[Closest(resolved.inst, k)][k] IN
                 /\ resolved.config[k].by = set.by
                 /\ resolved.config[k].t = IF set.t = "factory" THEN "schema" ELSE set.t
                 /\ resolved.config[k].v = set.v

\* a chain root -> mid -> leaf in which all three set url, and mid but not
\* leaf sets response
C5_Witness ==
    \E leaf \in live :
        /\ resolved.inst = leaf
        /\ Len(ChainUp(leaf)) = 3
        /\ \A j \in {ChainUp(leaf)[n] : n \in 1..3} : partial[j]["url"] # Absent
        /\ partial[leaf]["response"] = Absent
        /\ partial[extends[leaf]]["response"] # Absent
        /\ partial[extends[extends[leaf]]]["response"] # Absent
        /\ resolved.config["url"].by = leaf
        /\ resolved.config["response"].by = extends[leaf]

IsPrefix(s, t) == Len(s) <= Len(t) /\ \A n \in 1..Len(s) : s[n] = t[n]
Ascending(list) == \A a, b \in 1..Len(list) : a < b => list[a] < list[b]
\* the lists of an instance and its ancestors, the ancestors' first
RECURSIVE RootFirst(_, _)
RootFirst(lists, i) ==
    IF i = None THEN <<>> ELSE RootFirst(lists, extends[i]) \o lists[i]
PipePc(ev) ==
    CASE ev = "request" -> "requestPipe"
      [] ev = "response" -> "responsePipe"
      [] ev = "error" -> "errorPipe"
\* the pipeline of the event ran through all of its callbacks
Completed(call, ev) ==
    /\ call.built[ev]
    /\ call.pc # PipePc(ev)
    /\ \A n \in 1..Len(Invoked(call, ev)) : ~Invoked(call, ev)[n].out.threw

\* C6: for each event a call invokes the interceptors of its extension chain
\* from root to leaf and, within one instance, in registration order
\* (callbacks are numbered by registration); each interceptor after the first
\* receives the value the one before it returned.
C6_RootToLeafOrder ==
    \A c \in CallIds, ev \in Events :
        calls[c].built[ev] =>
            LET call == calls[c]
                ran == Invoked(call, ev) IN
            /\ call.snapshot[ev] = RootFirst(call.lists[ev], call.inst)
            /\ \A i \in live : Ascending(call.lists[ev][i])
            /\ IsPrefix(CallbacksOf(ran), call.snapshot[ev])
            /\ Completed(call, ev) => CallbacksOf(ran) = call.snapshot[ev]
            /\ \A n \in 2..Len(ran) :
                  ~ran[n - 1].out.threw /\ ran[n].input = ran[n - 1].out.v

\* a call on the leaf whose request pipeline ran the root's interceptor,
\* registered second, before the leaf's, registered first, and handed the
\* root's output to the leaf's
C6_Witness ==
    \E c \in CallIds :
        /\ Done(c) /\ calls[c].inst = Leaf
        /\ Len(regs) = 2
        /\ regs[1].inst = Leaf /\ regs[2].inst = Root
        /\ Completed(calls[c], "request") /\ calls[c].finalRequest # NoVal
        /\ CallbacksOf(Invoked(calls[c], "request")) = <<2, 1>>
        /\ Invoked(calls[c], "request")[2].input.marks = <<2>>
        /\ calls[c].finalRequest.marks = <<2, 1>>

C8_CancelledNeverInvoked ==
    \A c \in CallIds : \A n \in calls[c].firedAtStart :
        /\ \A m \in 1..Len(calls[c].log) : calls[c].log[m].cb # regs[n].cb
        /\ \A ev \in Events : \A m \in 1..Len(calls[c].snapshot[ev]) :
              calls[c].snapshot[ev][m] # regs[n].cb

\* a call on the leaf, begun after the token of an interceptor of the root
\* had fired, ran the pipeline of that event with the other interceptor only
C8_Witness ==
    \E c \in CallIds, n \in 1..Len(regs) :
        /\ Done(c) /\ calls[c].inst = Leaf
        /\ n \in calls[c].firedAtStart
        /\ regs[n].inst = Root
        /\ Completed(calls[c], regs[n].ev)
        /\ Len(Invoked(calls[c], regs[n].ev)) = 1
        /\ Invoked(calls[c], regs[n].ev)[1].cb # regs[n].cb

\* C9: once a call has entered the error path it never resolves as success:
\* whatever the error interceptors return or throw, go rejects and safeGo
\* resolves with a null value slot and a non-null error slot.
C9_ErrorPathNeverSucceeds ==
    \A c \in CallIds :
        Done(c) /\ calls[c].caught # NoVal =>
            IF calls[c].mode = "go" THEN calls[c].result.s = "rejected"
            ELSE /\ calls[c].result.s = "resolved"
                 /\ calls[c].result.v.k = "Tuple"
                 /\ calls[c].result.v.value = Null
                 /\ calls[c].result.v.error # Null

\* C10: every failure before the transport is called (override merge, split,
\* validation, request build, request interception) is coerced to an Error
\* and passed through the error pipeline with stage "request" and the latest
\* request before the call fails.
C10_RequestStageFailures ==
    \A c \in CallIds :
        Done(c) /\ calls[c].outcome.s = "rejected" /\ calls[c].fetches = 0 =>
            /\ calls[c].built["error"]
            /\ calls[c].coerced.k = "Error"
            /\ calls[c].stage = "request"
            /\ calls[c].errRequest = calls[c].currentRequest

\* C11: every failure after the request pipeline (transport call, status
\* check, response interception, unwrap, response validation) is coerced to
\* an Error and passed through the error pipeline with stage "response" and
\* the final request, the output of the request pipeline; none of them is
\* reported with stage "request".
C11_ResponseStageFailures ==
    \A c \in CallIds :
        Done(c) /\ calls[c].outcome.s = "rejected" /\ calls[c].fetches > 0 =>
            /\ calls[c].built["error"]
            /\ calls[c].coerced.k = "Error"
            /\ calls[c].stage = "response"
            /\ calls[c].errRequest = calls[c].finalRequest
            /\ \A n \in 1..Len(Invoked(calls[c], "error")) :
                  /\ Invoked(calls[c], "error")[n].ctx.stage = "response"
                  /\ Invoked(calls[c], "error")[n].ctx.request = calls[c].finalRequest

\* C12: the result of the error pipeline is always surfaced: on every failed
\* call the error pipeline has run, and #fetch rejects with the value the last
\* error interceptor that ran produced, or with the coerced error itself when
\* no error interceptor is registered.
C12_ErrorPipelineResultSurfaced ==
    \A c \in CallIds :
        Done(c) /\ calls[c].outcome.s = "rejected" =>
            LET ran == Invoked(calls[c], "error") IN
            /\ calls[c].built["error"]
            /\ calls[c].outcome.v = IF ran = <<>> THEN calls[c].coerced
                                    ELSE ran[Len(ran)].out.v

\* C13: an override given as a function is called with the resolved instance
\* config and what it returns is the override fragment; an override given as
\* a plain object is the fragment itself; either way the call proceeds with
\* the fragment merged in, here the fragment's url as the url of the request.
C13_OverrideForms ==
    \A c \in CallIds :
        /\ calls[c].pc # "idle"
        /\ calls[c].cc.override \in {"function", "object"}
        /\ calls[c].cc.fragment["url"] # ""
        => /\ calls[c].url = calls[c].cc.fragment["url"]
           /\ calls[c].currentRequest # NoVal =>
                 calls[c].currentRequest.url = calls[c].cc.fragment["url"]
           /\ ~(Done(c) /\ calls[c].outcome = Rejected(Err("override", "TypeError")))

\* the value of a native option by precedence: the override fragment's, else
\* the call config's, else the resolved instance config's
Preferred(call, key) ==
    IF call.cc.override \in {"function", "object"} /\ call.cc.fragment[key] # ""
    THEN call.cc.fragment[key]
    ELSE IF call.cc[key] # "" THEN call.cc[key]
    ELSE call.instanceConfig[key].v

\* C14: merge precedence: for every transport-native option (url, method)
\* the value a request of the call is built with is the override fragment's
\* if the fragment defines the option, else the call config's if it defines
\* it, else the resolved instance config's (else the default of the option).
C14_MergePrecedence ==
    \A c \in CallIds :
        calls[c].currentRequest # NoVal =>
            /\ calls[c].currentRequest.url =
                  IF Preferred(calls[c], "url") = ""
                  THEN "somehow a missing URL found its way"
                  ELSE Preferred(calls[c], "url")
            /\ calls[c].currentRequest.method =
                  IF Preferred(calls[c], "method") = "" THEN "GET"
                  ELSE Preferred(calls[c], "method")

\* a request built from a url set by the instance, the call config and the
\* override fragment, and from a method set by the instance and the call
\* config only
C14_Witness ==
    \E c \in CallIds :
        /\ calls[c].finalRequest # NoVal
        /\ calls[c].instanceConfig["url"].v = "/echo"
        /\ calls[c].cc.url = "/call"
        /\ calls[c].cc.fragment["url"] = "/override"
        /\ calls[c].instanceConfig["method"].v = "POST"
        /\ calls[c].cc.method = "PUT"
        /\ calls[c].cc.fragment["method"] = ""
        /\ calls[c].finalRequest.url = "/override"
        /\ calls[c].finalRequest.method = "PUT"

\* the query parameters of a request that carry the given key, in order
WithKey(query, key) == SelectSeq(query, LAMBDA q : q[1] = key)

\* C15: the query string of the built request holds, for every entry of the
\* validated params, one occurrence per value: one for a string value, one
\* per element in array order for an array value; no other parameter is
\* added.
C15_QueryString ==
    \A c \in CallIds :
        calls[c].pc = "built" \/ calls[c].fetches > 0 =>
            LET request == IF calls[c].pc = "built" THEN calls[c].currentRequest
                           ELSE calls[c].finalRequest
                entries == Entries(calls[c].params.v.msg) IN
            /\ \A e \in 1..Len(entries) :
                  LET found == WithKey(request.query, entries[e][1])
                      value == entries[e][2] IN
                  IF value.k = "string"
                  THEN found = << <<entries[e][1], value.v>> >>
                  ELSE /\ Len(found) = Len(value.v)
                       /\ \A n \in 1..Len(found) : found[n] = <<entries[e][1], value.v[n]>>
            /\ \A q \in 1..Len(request.query) :
                  \E e \in 1..Len(entries) : entries[e][1] = request.query[q][1]

\* the request sent for params {id: "42", tag: ["a", "b"], none: []}
C15_Witness ==
    \E c \in CallIds :
        /\ calls[c].fetches > 0
        /\ calls[c].paramsInput = "id=42&tag=[a,b]&none=[]"
        /\ calls[c].finalRequest.query =
              << <<"id", "42">>, <<"tag", "a">>, <<"tag", "b">> >>

\* the content types of the transport's responses that contain
\* "application/json"
ContainsJson(type) == type \in {"application/json", "application/json; charset=utf-8"}

\* C16: with a custom handleResponse configured the materialized value is
\* what that callback returns and the default unwrapper is not used;
\* otherwise a response whose content type contains "application/json" is
\* materialized by JSON parsing and any other one, the one without a content
\* type included, by text decoding.
C16_Unwrap ==
    \A c \in CallIds :
        LET call == calls[c]
            custom == call.instanceConfig["handleResponse"] # Absent IN
        /\ call.unwrapped # NoVal =>
              /\ call.unwrapped.msg = call.intercepted.body
              /\ call.unwrapped.k =
                    IF custom THEN "Custom"
                    ELSE IF ContainsJson(call.intercepted.type) THEN "Json" ELSE "Text"
        /\ call.caught # NoVal /\ call.caught.k = "Error" /\ call.caught.of = "json" =>
              ~custom /\ ContainsJson(call.intercepted.type)

\* a response without a content type whose body, though JSON, was decoded as
\* text, by the default unwrapper
C16_Witness ==
    \E c \in CallIds :
        /\ Done(c)
        /\ calls[c].instanceConfig["handleResponse"] = Absent
        /\ calls[c].intercepted # NoVal
        /\ calls[c].intercepted.type = ""
        /\ calls[c].unwrapped = [k |-> "Text", msg |-> ValidJson]

\* C17: a pipeline is a strict sequential fold: a callback is called only
\* when the promise of the one before it has resolved, with that resolved
\* value as its first argument and the same context arguments, and at no
\* moment are two callbacks of a pipeline running.
C17_SequentialFold ==
    \A c \in CallIds :
        /\ Cardinality(calls[c].running) <= 1
        /\ \A ev \in Events :
              LET ran == Invoked(calls[c], ev) IN
              \A n \in 2..Len(ran) :
                  /\ ran[n - 1].out # Unsettled
                  /\ ~ran[n - 1].out.threw
                  /\ ran[n].input = ran[n - 1].out.v
                  /\ ran[n].ctx = ran[n - 1].ctx

\* the second request interceptor of a call is running on the value the
\* first one resolved with
C17_Witness ==
    \E c \in CallIds :
        LET ran == Invoked(calls[c], "request") IN
        /\ calls[c].pc = "requestPipe"
        /\ Len(ran) = 2
        /\ calls[c].running = {2}
        /\ ran[1].out # Unsettled /\ ran[2].out = Unsettled
        /\ ran[2].input = ran[1].out.v
        /\ ran[2].input.marks = <<ran[1].cb>>

\* C18: the pipeline of an empty interceptor list is the identity: with no
\* interceptor registered for an event on the chain, the request, response
\* or error that goes into the pipeline is the value that comes out.
C18_EmptyPipelineIdentity ==
    \A c \in CallIds :
        LET call == calls[c]
            Empty(ev) == Completed(call, ev) /\ call.snapshot[ev] = <<>> IN
        /\ Empty("request") => call.finalRequest = call.builtRequest
        /\ Empty("response") => call.intercepted = call.checked
        /\ Empty("error") => call.outcome = Rejected(call.coerced)

\* a call with no interceptor on its chain whose request went through the
\* request pipeline and whose status error went through the error pipeline
C18_Witness ==
    \E c \in CallIds :
        /\ Done(c) /\ calls[c].inst = Leaf
        /\ \A i \in live, ev \in Events : interceptors[i][ev] = <<>>
        /\ calls[c].snapshot = NoInterceptors
        /\ calls[c].built["request"] /\ calls[c].built["error"]
        /\ calls[c].response.status = 404
        /\ calls[c].finalRequest = calls[c].builtRequest
        /\ calls[c].outcome = Rejected(calls[c].coerced)

\* C19: every response interceptor is called with the context (finalRequest,
\* stack): the request that was sent and the call-stack token captured when
\* the call began, the token the request and error interceptors of the call
\* receive.
C19_ResponseContext ==
    \A c \in CallIds :
        \A n \in 1..Len(Invoked(calls[c], "response")) :
            /\ Invoked(calls[c], "response")[n].ctx.request = calls[c].finalRequest
            /\ Invoked(calls[c], "response")[n].ctx.stack = calls[c].stack
            /\ Invoked(calls[c], "response")[n].ctx.stack # None

\* the call failed at params or body validation, at the build of the request
\* or in a request interceptor
FailedBeforeTransport(call) ==
    \/ call.params.s = "rejected"
    \/ call.body.s = "rejected"
    \/ /\ call.params.s = "resolved" /\ call.body.s = "resolved"
       /\ call.method \in {"GET", "HEAD"} /\ call.body.v.msg # "undefined"
    \/ \E n \in 1..Len(call.log) : call.log[n].ev = "request" /\ call.log[n].out.threw

\* C20: no retries and no silent recovery: a call invokes the transport at
\* most once, and not at all when it failed at params or body validation, at
\* the build of the request or at request interception.
C20_NoRetries ==
    \A c \in CallIds :
        /\ calls[c].fetches <= 1
        /\ FailedBeforeTransport(calls[c]) => calls[c].fetches = 0
        /\ calls[c].fetches = 1 => calls[c].finalRequest # NoVal

\* a call that ended after its request interceptor threw, without the
\* transport having been invoked
C20_Witness ==
    \E c \in CallIds :
        /\ Done(c)
        /\ Len(Invoked(calls[c], "request")) = 1
        /\ Invoked(calls[c], "request")[1].out.threw
        /\ calls[c].stage = "request"
        /\ calls[c].response = NoVal
        /\ calls[c].fetches = 0

Count(list, cb) == Cardinality({n \in 1..Len(list) : list[n] = cb})
\* s is t with some of its elements left out
RECURSIVE IsSubsequence(_, _)
IsSubsequence(s, t) ==
    IF s = <<>> THEN TRUE
    ELSE IF t = <<>> THEN FALSE
    ELSE IF Head(s) = Head(t) THEN IsSubsequence(Tail(s), Tail(t))
    ELSE IsSubsequence(s, Tail(t))
\* the registrations of a callback in a list that were made with the token
Cancellable(sig, i, ev, cb) ==
    {n \in 1..Len(regs) : regs[n] = [inst |-> i, ev |-> ev, cb |-> cb, sig |-> sig,
                                     fired |-> FALSE]}

\* C21: when a cancellation token fires, each registration made with it
\* loses exactly one entry, its callback, from the list of its event on its
\* instance, and this happens once; the other callbacks of that list keep
\* their places and every other list is unchanged.
C21_CancellationFrame ==
    [][\A sig \in Tokens :
          sig \in aborted' /\ sig \notin aborted =>
              /\ \A i \in live, ev \in Events :
                    /\ IsSubsequence(interceptors'[i][ev], interceptors[i][ev])
                    /\ \A cb \in Callbacks :
                          Count(interceptors'[i][ev], cb) =
                             Count(interceptors[i][ev], cb)
                                - Cardinality(Cancellable(sig, i, ev, cb))
              /\ \A l \in 1..Len(listeners') : listeners'[l].sig # sig
       ]_vars

\* a token has fired and taken the first of the two callbacks of the root's
\* request list, the second one, registered without a token, is what is left
C21_Witness ==
    /\ aborted = {"s1"}
    /\ Len(regs) = 2
    /\ regs[1] = [inst |-> Root, ev |-> "request", cb |-> 1, sig |-> "s1", fired |-> TRUE]
    /\ regs[2] = [inst |-> Root, ev |-> "request", cb |-> 2, sig |-> NoSignal,
                  fired |-> FALSE]
    /\ interceptors[Root]["request"] = <<2>>

\* C22: instances are immutable apart from their interceptor lists: no
\* config resolution and no call changes the own config or the parent
\* reference of an instance, be it a root or an extending instance.
C22_InstancesImmutable ==
    [][\A i \in live : partial'[i] = partial[i] /\ extends'[i] = extends[i]]_vars

\* the request made from the url and the transport options alone
InitialRequest(call) == Req(call.url, call.method, <<>>, "undefined")
\* the request made from the url, the validated params and the validated body
FullRequest(call) ==
    Req(call.url, call.method, setUrlParams(call.params.v.msg), call.body.v.msg)
RequestInterceptorFailed(call) ==
    \E n \in 1..Len(call.log) : call.log[n].ev = "request" /\ call.log[n].out.threw
\* the value the request pipeline resolved with
RequestPipeOutput(call) ==
    IF Invoked(call, "request") = <<>> THEN call.builtRequest
    ELSE Invoked(call, "request")[Len(Invoked(call, "request"))].out.v

\* C23: the request given to the error pipeline at stage "request" is the
\* latest request that was built: the one made from the url and the transport
\* options alone when the validation of the params or of the body fails, the
\* full request with query parameters and body when a request interceptor
\* fails; once the request pipeline has completed, the tracked current
\* request is the output of that pipeline.
C23_LatestBuiltRequest ==
    \A c \in CallIds :
        LET call == calls[c] IN
        /\ call.built["error"] /\ call.stage = "request" =>
              /\ call.params.s = "rejected" \/ call.body.s = "rejected" =>
                    call.errRequest = InitialRequest(call)
              /\ RequestInterceptorFailed(call) =>
                    /\ call.errRequest = FullRequest(call)
                    /\ call.errRequest = call.builtRequest
              /\ \A n \in 1..Len(Invoked(call, "error")) :
                    Invoked(call, "error")[n].ctx.request = call.errRequest
        /\ call.fetches > 0 =>
              /\ call.currentRequest = RequestPipeOutput(call)
              /\ call.finalRequest = call.currentRequest
C23_Witness ==
    \E c \in CallIds :
        /\ Done(c) /\ calls[c].stage = "request"
        /\ RequestInterceptorFailed(calls[c])
        /\ Invoked(calls[c], "error") # <<>>
        /\ calls[c].errRequest.query # <<>>
        /\ calls[c].errRequest # InitialRequest(calls[c])

\* every callback of the event that was called has settled
Settled(call, ev) ==
    \A n \in 1..Len(Invoked(call, ev)) : Invoked(call, ev)[n].out # Unsettled
\* in the log of invocations no entry of event `first` follows one of `then`
Precede(call, first, then) ==
    \A m, n \in 1..Len(call.log) :
        call.log[m].ev = then /\ call.log[n].ev = first => n < m

\* C24: within one call the stages happen in order and do not overlap: the
\* request is built only after both validations completed, the transport is
\* called only after the request pipeline completed, a response interceptor
\* runs only after the status check, the response is unwrapped only after
\* the response pipeline completed, and the response schema is consulted
\* only after unwrapping; a call that resolves went through all of them.
C24_StageOrder ==
    \A c \in CallIds :
        LET call == calls[c] IN
        /\ call.pc \in {"validated", "built"} \/ call.builtRequest # NoVal =>
              call.params.s = "resolved" /\ call.body.s = "resolved"
        /\ call.built["request"] => call.builtRequest # NoVal
        /\ call.fetches > 0 =>
              Completed(call, "request") /\ Settled(call, "request")
        /\ call.response # NoVal => call.fetches > 0
        /\ call.checked # NoVal => call.response # NoVal
        /\ call.built["response"] => call.checked # NoVal
        /\ call.intercepted # NoVal \/ call.unwrapped # NoVal =>
              Completed(call, "response") /\ Settled(call, "response")
        /\ call.unwrapped # NoVal => call.intercepted # NoVal
        /\ Precede(call, "request", "response")
        /\ Done(c) /\ call.outcome.s = "resolved" =>
              /\ call.unwrapped # NoVal
              /\ call.outcome.v = ParseResponse(call.unwrapped)
C24_Witness ==
    \E c \in CallIds :
        /\ Done(c) /\ calls[c].outcome.s = "resolved"
        /\ Invoked(calls[c], "request") # <<>>
        /\ Invoked(calls[c], "response") # <<>>

\* the rejections of the validations of the call that have failed
ValidationFailures(call) ==
    {v.v : v \in {x \in {call.params, call.body} : x.s = "rejected"}}

\* C25: the validations of the params and of the body are started together
\* and a failure of either aborts the call: no request is built from them,
\* no request interceptor runs, the transport is not called, and the error
\* given to the error pipeline is the failure of a validation that failed.
C25_ValidationFailureAborts ==
    \A c \in CallIds :
        LET call == calls[c] IN
        /\ call.pc = "validating" =>
              /\ call.params.s # "rejected" /\ call.body.s # "rejected"
              /\ call.params = Pending \/ call.body = Pending
        /\ ValidationFailures(call) # {} =>
              /\ call.pc \in {"catchRequest", "errorPipe", "done"}
              /\ call.builtRequest = NoVal
              /\ call.currentRequest = InitialRequest(call)
              /\ ~call.built["request"] /\ Invoked(call, "request") = <<>>
              /\ call.fetches = 0
              /\ call.caught \in ValidationFailures(call)
              /\ call.pc # "catchRequest" =>
                    /\ call.built["error"] /\ call.stage = "request"
                    /\ call.coerced = call.caught
                    /\ Invoked(call, "error") # <<>> =>
                          Invoked(call, "error")[1].input = call.caught
C25_Witness ==
    \E c \in CallIds :
        /\ Done(c)
        /\ calls[c].body.s = "rejected" /\ calls[c].params = Pending
        /\ Invoked(calls[c], "error") # <<>>

\* C26: for a transport response with a status outside 200..299 no response
\* interceptor is invoked, the response is not unwrapped (by the custom
\* handler or by the default one), the response schema is not consulted, and
\* the call goes from the status check straight to the error path.
C26_NonSuccessSkipsResponseStages ==
    \A c \in CallIds :
        LET call == calls[c] IN
        Answered(c) /\ call.response.status \notin 200..299 =>
            /\ call.pc \in {"received", "catchResponse", "errorPipe", "done"}
            /\ call.checked = NoVal
            /\ ~call.built["response"] /\ Invoked(call, "response") = <<>>
            /\ call.intercepted = NoVal
            /\ call.unwrapped = NoVal
            /\ call.pc # "received" => call.caught # NoVal
            /\ call.built["error"] => call.stage = "response"
            /\ Done(c) => call.outcome.s = "rejected"
C26_Witness ==
    \E c \in CallIds :
        /\ Done(c) /\ Answered(c)
        /\ calls[c].response.status = 300
        /\ calls[c].atStart["response"] # <<>>
        /\ calls[c].built["error"]

\* C27: every config resolution materializes the schema keys afresh: a key
\* no instance of the chain defines resolves to the accept-anything schema,
\* and a key defined by a factory resolves to the result of invoking that
\* factory exactly once during that very resolution, on the first and on
\* every later resolution, for root and extending instances alike.
C27_MaterializedAfresh ==
    resolved.inst # None =>
        \A k \in SchemaKeySet :
            IF resolved.config[k] = zUnknown
            THEN Count(resolved.invoked, k) = 0
            ELSE /\ resolved.config[k].t = "schema"
                 /\ Count(resolved.invoked, k) = 1

\* C28: reading the body for a status error is best-effort: a response with
\* a status outside 200..299 whose body cannot be read still fails the
\* status check with the status error carrying the status code and the
\* status text, not with the failure of the body read.
C28_BodyReadBestEffort ==
    \A c \in CallIds :
        LET call == calls[c] IN
        /\ Answered(c) /\ call.pc # "received"
        /\ call.response.status \notin 200..299
        /\ ~call.response.readable
        => /\ call.caught.k = "Error"
           /\ call.caught.of = "status"
           /\ call.caught.of # "bodyRead"
           /\ call.caught.status = call.response.status
           /\ call.caught.statusText = call.response.statusText

\* the value is not a request of another call
OwnRequest(call, v) == v.k = "Request" => v.url = call.url
\* what the call settles with, from what its own steps produced
OwnOutcome(call) ==
    IF ~call.built["error"] THEN Resolved(ParseResponse(call.unwrapped))
    ELSE IF Invoked(call, "error") = <<>> THEN Rejected(call.coerced)
    ELSE Rejected(Invoked(call, "error")[Len(Invoked(call, "error"))].out.v)
\* the request the error pipeline of the call is given, from its own steps
OwnErrorRequest(call) ==
    IF call.stage = "response" THEN RequestPipeOutput(call)
    ELSE IF RequestInterceptorFailed(call) THEN FullRequest(call)
    ELSE InitialRequest(call)

\* C29: calls are independent: with two calls in flight at once on the same
\* instance or on related instances, and the interceptor lists left alone
\* meanwhile, under every interleaving each call resolves its config, runs
\* the full interceptor lists, settles and informs its error pipeline
\* (request, stage, stack) as its own steps alone determine, and no request
\* of one call is ever seen by the other.
C29_CallsIndependent ==
    \A c \in PairIds :
        LET call == calls[c] IN
        call.pc # "idle" =>
            /\ call.instanceConfig = config(call.inst)
            /\ call.stack = c
            /\ \A ev \in Events :
                  call.built[ev] => call.snapshot[ev] = getInterceptors(call.inst, ev)
            /\ \A v \in {call.currentRequest, call.builtRequest, call.finalRequest,
                         call.errRequest, call.acc} : OwnRequest(call, v)
            /\ \A n \in 1..Len(call.log) :
                  /\ OwnRequest(call, call.log[n].input)
                  /\ OwnRequest(call, call.log[n].ctx.request)
                  /\ call.log[n].ev = "request" => call.log[n].ctx.stack = c
                  /\ call.log[n].ev = "error" =>
                        /\ call.log[n].ctx.stack = c
                        /\ call.log[n].ctx.stage = call.stage
                        /\ call.log[n].ctx.request = OwnErrorRequest(call)
            /\ call.built["error"] => call.errRequest = OwnErrorRequest(call)
            /\ call.pc = "done" => call.outcome = OwnOutcome(call)
\* both calls are in flight on the same instance, one in its error pipeline
\* after a request interceptor failed, the other in its request pipeline
C29_Witness ==
    /\ calls[1].inst = calls[2].inst
    /\ calls[1].pc = "errorPipe" /\ calls[1].stage = "request"
    /\ Invoked(calls[1], "error") # <<>>
    /\ calls[2].pc = "requestPipe" /\ Invoked(calls[2], "request") # <<>>
    /\ calls[1].errRequest # calls[2].currentRequest

=============================================================================
